---- MODULE Spec2Model ----
(***************************************************************************)
(* The VideoPlayer component of loop-video-canvas-hub, in its successive   *)
(* iterations (src/unnamed/part_000, part_001, part_003, part_002), as a   *)
(* state                                                                   *)
(* machine.  One action is one browser callback (a click, a 'message'      *)
(* event, an interval tick, a timeout, a fullscreenchange event) together  *)
(* with the React render it causes and the passive effects that render     *)
(* triggers, run until no state update is left (operator Commit).          *)
(*                                                                         *)
(* Indices are 0-based as in the source; videos[i + 1] is videos[i].       *)
(***************************************************************************)
EXTENDS Integers, Sequences, FiniteSets, TLC

VARIABLES
    iteration,       \* which iteration of VideoPlayer.tsx is running
    videos,          \* prop videos: the sequence of the items' types
    autoPlay,        \* prop autoPlay
    orientationLock, \* platform: screen.orientation.lock exists
    mounted,         \* the component has been mounted (effects have run)
    currentIndex,    \* useState(0)
    isPlaying,       \* useState(autoPlay)
    loopEnabled,     \* useState(true)
    isFullscreen,    \* useState(false)
    remainingTime,   \* useState(30)                         (part_002)
    videoTimerRef,   \* useRef(null): Null, an interval id, or Stale
    intervals,       \* the live setInterval countdowns         (part_002)
    timeouts,        \* the pending settle setTimeouts, oldest first
    listeners,       \* the closures of the attached 'message' listeners
    lockPending,     \* an orientation.lock() promise is unsettled
    leftPush,        \* a YouTube embed that is no longer current has existed
    disposed,        \* the component has been unmounted
    lastOp,          \* history: the last callback that ran
    run,             \* history: the current run of consecutive ENDED events
    docs,            \* Firestore collection 'videos': document id -> data
    now,             \* the clock Date.now() reads
    fetched,         \* what the last getUserVideos call returned
    dashboard,       \* pages/Dashboard.tsx: the component's useState values
    calls,           \* the Dashboard's async handlers waiting at their await
    finished         \* history: the handler that resumed last

vars == <<iteration, videos, autoPlay, orientationLock, mounted, currentIndex,
          isPlaying, loopEnabled, isFullscreen, remainingTime, videoTimerRef,
          intervals, timeouts, listeners, lockPending, leftPush, disposed,
          lastOp, run, docs, now, fetched, dashboard, calls, finished>>

\* src/services/videoService.ts
service == <<docs, now, fetched>>

\* src/pages/Dashboard.tsx
page == <<dashboard, calls, finished>>

props == <<iteration, videos, autoPlay, orientationLock>>

\* ---------------------------------------------------------------- bounds
MaxVideos == 3

\* the longest playlist the host puts in place of the current one
MaxReplaced == 2

MaxTimeouts == 2
MaxIntervals == 2

\* ------------------------------------------------------------- constants
YOUTUBE == "youtube"
CANVA == "canva"
VideoType == {YOUTUBE, CANVA}

P000 == "part_000"
P001 == "part_001"
P003 == "part_003"
P002 == "part_002"

\* videoTimerRef.current: null, or an id that has been cleared
Null == 0
Stale == -1
Undefined == "undefined"
\* (prevIndex + 1) % 0
NaN == -2

YOUTUBE_TIME_LIMIT == 0
CANVA_TIME_LIMIT == 30
DEFAULT_TIME_LIMIT == 30
INITIAL_REMAINING_TIME == 30

\* YouTube iframe API player states carried by event.data.info
ENDED == 0
ERRORED == -1
PLAYING == 1
PAUSED == 2
BUFFERING == 3
PlayerStates == {ENDED, ERRORED, PLAYING, PAUSED, BUFFERING}

N == Len(videos)

\* const currentVideo = videos[currentIndex]
videoAt(vs, i) == IF i >= 0 /\ i < Len(vs) THEN vs[i + 1] ELSE Undefined

currentVideoAt(i) == videoAt(videos, i)

currentVideo == currentVideoAt(currentIndex)

\* ------------------------------------------------- the component's state
\* The state one callback works on, as a record.
State ==
    [idx |-> currentIndex, playing |-> isPlaying, loop |-> loopEnabled,
     fs |-> isFullscreen, rt |-> remainingTime, ref |-> videoTimerRef,
     ivs |-> intervals, pend |-> timeouts, lst |-> listeners,
     lock |-> lockPending, left |-> leftPush, vids |-> videos]

Store(s) ==
    /\ currentIndex' = s.idx
    /\ isPlaying' = s.playing
    /\ loopEnabled' = s.loop
    /\ isFullscreen' = s.fs
    /\ remainingTime' = s.rt
    /\ videoTimerRef' = s.ref
    /\ intervals' = s.ivs
    /\ timeouts' = s.pend
    /\ listeners' = s.lst
    /\ lockPending' = s.lock
    /\ leftPush' = s.left

HasTimer == iteration = P002
TracksTimeout == iteration \in {P001, P003}
LoopAware == iteration \in {P001, P003}

\* VIDEO_TIME_LIMITS[type]
VIDEO_TIME_LIMITS(type) ==
    IF type = YOUTUBE THEN YOUTUBE_TIME_LIMIT ELSE CANVA_TIME_LIMIT

\* const timeLimit = VIDEO_TIME_LIMITS[currentVideo.type] || 30
timeLimitOf(type) ==
    IF VIDEO_TIME_LIMITS(type) # 0 THEN VIDEO_TIME_LIMITS(type)
    ELSE DEFAULT_TIME_LIMIT

\* The values a render's closures capture.
Closure(r) ==
    [idx |-> r.idx, playing |-> r.playing, loop |-> r.loop, vids |-> r.vids]

\* What the effects' dependency arrays compare between two renders.
Rendered(s) == <<s.idx, s.playing, s.loop, s.fs, s.vids>>

\* --------------------------------------------------------------- timers
\* if (videoTimerRef.current) clearTimeout(videoTimerRef.current)
\* The ref keeps the id it held; an id that has been cleared is Stale.
clearVideoTimer(s) ==
    IF s.ref \in {Null, Stale} THEN s
    ELSE [s EXCEPT !.ivs = {iv \in s.ivs : iv.id # s.ref}, !.ref = Stale]

\* clearInterval(intervalId)
clearInterval(s, id) ==
    [s EXCEPT !.ivs = {iv \in s.ivs : iv.id # id},
              !.ref = IF @ = id THEN Stale ELSE @]

\* the id setInterval returns: one no live interval has
FreshId(s) ==
    CHOOSE i \in 1..(MaxIntervals + 1) :
        /\ \A iv \in s.ivs : iv.id # i
        /\ \A j \in 1..(i - 1) : \E iv \in s.ivs : iv.id = j

\* startVideoTimer that arms one second above the limit
startVideoTimerOverLimit(s, r) ==
    LET a == clearVideoTimer(s)
        id == FreshId(a)
    IN  [a EXCEPT !.rt = timeLimitOf(videoAt(r.vids, r.idx)) + 1,
                  !.ivs = @ \cup {[id |-> id, item |-> r.idx]},
                  !.ref = id]

\* startVideoTimer, in the render r
startVideoTimer(s, r) ==
    LET type == videoAt(r.vids, r.idx)
        timeLimit == timeLimitOf(type)
        a == clearVideoTimer(s)
        b == [a EXCEPT !.rt = timeLimit]
        id == FreshId(a)
    IN  IF type = CANVA \/ timeLimit > 0
        THEN [b EXCEPT !.ivs = @ \cup {[id |-> id, item |-> r.idx]},
                       !.ref = id]
        ELSE b

\* ----------------------------------------------------------- navigation
\* goToNextVideo that stops at the last item, looping or not
goToNextVideoStay(s, c) ==
    IF Len(c.vids) <= 1 THEN s
    ELSE [s EXCEPT !.idx = IF @ >= Len(c.vids) - 1 THEN @ ELSE @ + 1]

\* goToNextVideo that clears the countdown before its length check
goToNextVideoClearsTimer(s, c) ==
    LET a == clearVideoTimer(s)
    IN  IF Len(c.vids) <= 1 THEN a
        ELSE [a EXCEPT !.idx = IF LoopAware /\ ~c.loop /\ @ >= Len(c.vids) - 1
                               THEN @
                               ELSE (@ + 1) % Len(c.vids)]

\* goToNextVideo that never wraps
goToNextVideoPastEnd(s, c) == [s EXCEPT !.idx = @ + 1]

\* goToNextVideo, as defined in the render the closure c captured: it reads
\* that render's videos.length and loopEnabled, and the index of the moment
goToNextVideo(s, c) ==
    IF iteration = P000
    THEN [s EXCEPT !.idx = IF Len(c.vids) = 0 THEN NaN ELSE (@ + 1) % Len(c.vids)]
    ELSE IF Len(c.vids) <= 1 THEN s
    ELSE [s EXCEPT !.idx = IF LoopAware /\ ~c.loop /\ @ >= Len(c.vids) - 1
                           THEN @
                           ELSE (@ + 1) % Len(c.vids)]

\* goToPreviousVideo
goToPreviousVideo(s) ==
    IF Len(s.vids) <= 1 THEN s
    ELSE [s EXCEPT !.idx = IF @ <= 0 THEN Len(s.vids) - 1 ELSE @ - 1]

\* toggleLooping that inverts the flag
toggleLoopingInverts(s) == [s EXCEPT !.loop = ~s.loop]

\* toggleLooping
toggleLooping(s) ==
    IF iteration = P002 THEN [s EXCEPT !.loop = TRUE]
    ELSE [s EXCEPT !.loop = ~s.loop]

\* togglePlayPause
togglePlayPauseRestarts(s) == [s EXCEPT !.playing = ~s.playing, !.idx = 0]

togglePlayPause(s) == [s EXCEPT !.playing = ~s.playing]

\* -------------------------------------------------------- settle delay
Untrack(pend) == [k \in 1..Len(pend) |-> [pend[k] EXCEPT !.tracked = FALSE]]

\* part_002's settle callback reads nothing of the render that made it
\* but videos (goToNextVideo reads videos.length alone).
UntrackedTimeout(vs) == [idx |-> 0, loop |-> TRUE, tracked |-> FALSE, vids |-> vs]

\* handleVideoEnd, called from a closure c: schedules the delayed advance.
\* part_001/part_003 keep the timeout's handle in the effect's `timer`
\* (the latest one only); part_002 keeps no handle.
handleVideoEnd(s, c) ==
    IF iteration = P002
    THEN LET a == clearVideoTimer(s)
         IN  [a EXCEPT !.ref = IF s.ref # Null THEN Null ELSE @,
                       !.pend = Append(@, UntrackedTimeout(c.vids))]
    ELSE IF iteration \in {P000, P001} /\ ~c.playing THEN s
    ELSE [s EXCEPT !.pend = Append(Untrack(@), [idx |-> c.idx, loop |-> c.loop,
                                                 tracked |-> TRUE,
                                                 vids |-> c.vids])]

\* the callback the settle setTimeout runs, t being its closure
settleCallback(s, t) ==
    IF iteration = P002
    THEN [goToNextVideo(s, t) EXCEPT !.playing = TRUE]
    ELSE IF ~t.loop /\ t.idx >= Len(t.vids) - 1
    THEN IF iteration = P003 THEN [s EXCEPT !.playing = FALSE] ELSE s
    ELSE IF iteration = P003
    THEN [goToNextVideo(s, t) EXCEPT !.playing = TRUE]
    ELSE goToNextVideo(s, t)

\* ------------------------------------------------------ message handler
\* handleMessage without its branch for info === 2, as in part_001
handleMessageNoPause(s, c, info) ==
    IF info = ENDED THEN handleVideoEnd(s, c)
    ELSE IF info = ERRORED /\ iteration # P000 THEN goToNextVideo(s, c)
    ELSE IF info = PLAYING /\ iteration \in {P003, P002}
    THEN LET a == [s EXCEPT !.playing = TRUE]
         IN  IF iteration = P002 /\ videoAt(c.vids, c.idx) = YOUTUBE
             THEN clearVideoTimer(a)
             ELSE a
    ELSE s

\* handleMessage for { event: 'onStateChange', info }, in the closure c
handleMessage(s, c, info) ==
    IF info = ENDED THEN handleVideoEnd(s, c)
    ELSE IF info = ERRORED /\ iteration # P000 THEN goToNextVideo(s, c)
    ELSE IF info = PLAYING /\ iteration \in {P003, P002}
    THEN LET a == [s EXCEPT !.playing = TRUE]
         IN  IF iteration = P002 /\ videoAt(c.vids, c.idx) = YOUTUBE
             THEN clearVideoTimer(a)
             ELSE a
    ELSE IF info = PAUSED /\ iteration \in {P003, P002}
    THEN [s EXCEPT !.playing = FALSE]
    ELSE s

\* The window dispatches the event to every attached listener.
RECURSIVE DispatchTo(_, _, _)
DispatchTo(s, ls, info) ==
    IF ls = {} THEN s
    ELSE LET c == CHOOSE x \in ls : TRUE
         IN  DispatchTo(handleMessage(s, c, info), ls \ {c}, info)

Dispatch(s, info) == DispatchTo(s, s.lst, info)

\* the interval callback: setRemainingTime(prev => ...)
intervalCallbackByTwo(s, iv) ==
    LET newTime == s.rt - 2
    IN  IF newTime <= 0
        THEN [handleVideoEnd(clearInterval(s, iv.id),
                             [idx |-> iv.item, playing |-> TRUE, loop |-> TRUE,
                              vids |-> s.vids])
              EXCEPT !.rt = 0]
        ELSE [s EXCEPT !.rt = newTime]

intervalCallback(s, iv) ==
    LET newTime == s.rt - 1
    IN  IF newTime <= 0
        THEN [handleVideoEnd(clearInterval(s, iv.id),
                             [idx |-> iv.item, playing |-> TRUE, loop |-> TRUE,
                              vids |-> s.vids])
              EXCEPT !.rt = 0]
        ELSE [s EXCEPT !.rt = newTime]

\* -------------------------------------------------------------- effects
\* Each effect's setup runs in the render r and works on the state s the
\* earlier effects of the same commit left; a setState it calls shows as a
\* changed idx, playing or fs of the result, which the next render takes up.

\* cleanup of the fullscreen/orientation effect (part_002 clears the timer)
fullscreenEffectCleanup(s) ==
    IF iteration = P002 THEN clearVideoTimer(s) ELSE s

\* enterFullscreen: only part_002 sets the flag itself
enterFullscreen(s) ==
    IF iteration = P002 THEN [s EXCEPT !.fs = TRUE] ELSE s

\* exitFullscreen
exitFullscreen(s) ==
    IF iteration = P002 THEN [s EXCEPT !.fs = FALSE] ELSE s

\* the fullscreen/orientation effect of part_002, [videos.length, isFullscreen]
fullscreenEffect(s, r) ==
    IF iteration = P002 /\ Len(r.vids) > 0 /\ videoAt(r.vids, r.idx) # Undefined
       /\ ~r.fs
    THEN IF orientationLock THEN [s EXCEPT !.lock = TRUE]
         ELSE enterFullscreen(s)
    ELSE s

\* a timer effect that returns no cleanup
timerEffectCleanupNone(s, p) == s

\* cleanup of the timer effect, registered by the render p
timerEffectCleanup(s, p) ==
    IF iteration = P002 /\ videoAt(p.vids, p.idx) # Undefined
    THEN clearVideoTimer(s)
    ELSE s

\* a timer effect without its `if (!currentVideo) return`
timerEffectNoGuard(s, r) ==
    IF iteration = P002 /\ r.playing THEN startVideoTimer(s, r) ELSE s

\* the timer effect of part_002, [currentVideo, currentIndex, isPlaying]
timerEffect(s, r) ==
    IF iteration = P002 /\ videoAt(r.vids, r.idx) # Undefined /\ r.playing
    THEN startVideoTimer(s, r)
    ELSE s

\* cleanup of the message effect: clearTimeout(timer), removeEventListener
messageEffectCleanupKeeps(s, p) == s

messageEffectCleanup(s, p) ==
    IF Len(p.vids) = 0 THEN s
    ELSE [s EXCEPT !.pend = SelectSeq(@, LAMBDA t : ~t.tracked), !.lst = {}]

\* the message effect, [currentIndex, videos, isPlaying, loopEnabled]
messageEffect(s, r) ==
    IF Len(r.vids) = 0 THEN s ELSE [s EXCEPT !.lst = @ \cup {Closure(r)}]

\* a reset effect that lets an index past the end stand
resetEffectKeeps(s, r) ==
    IF Len(r.vids) > 0 /\ autoPlay /\ iteration # P000
    THEN [s EXCEPT !.idx = 0, !.playing = TRUE]
    ELSE s

\* the effect [videos, currentIndex, autoPlay]
resetEffectOutOfRangeOnly(s, r) ==
    IF Len(r.vids) > 0 /\ r.idx >= Len(r.vids) THEN [s EXCEPT !.idx = 0] ELSE s

resetEffect(s, r) ==
    LET n == Len(r.vids)
        a == IF n > 0 /\ r.idx >= n THEN [s EXCEPT !.idx = 0] ELSE s
    IN  IF n > 0 /\ autoPlay /\ iteration # P000 THEN [a EXCEPT !.idx = 0, !.playing = TRUE] ELSE a

\* One commit: the render of s after the render of p, then the cleanups of
\* the effects whose dependencies changed, then their setups, then the
\* render of whatever the setups set, until nothing changes.
RECURSIVE Commit(_, _)
Commit(p, s) ==
    LET dVideos == p.vids # s.vids
        dFs == p.fs # s.fs \/ Len(p.vids) # Len(s.vids)
        dTimer == \/ p.idx # s.idx
                  \/ p.playing # s.playing
                  \/ dVideos /\ (videoAt(p.vids, p.idx) # Undefined
                                  \/ videoAt(s.vids, s.idx) # Undefined)
        dMsg == p.idx # s.idx \/ p.playing # s.playing \/ p.loop # s.loop \/ dVideos
        dReset == p.idx # s.idx \/ dVideos
        l == IF dReset /\ videoAt(p.vids, p.idx) = YOUTUBE
             THEN [s EXCEPT !.left = TRUE] ELSE s
        c1 == IF dFs THEN fullscreenEffectCleanup(l) ELSE l
        c2 == IF dTimer THEN timerEffectCleanup(c1, p) ELSE c1
        c3 == IF dMsg THEN messageEffectCleanup(c2, p) ELSE c2
        e1 == IF dFs THEN fullscreenEffect(c3, s) ELSE c3
        e2 == IF dTimer THEN timerEffect(e1, s) ELSE e1
        e3 == IF dMsg THEN messageEffect(e2, s) ELSE e2
        e4 == IF dReset THEN resetEffect(e3, s) ELSE e3
    IN  IF Rendered(p) = Rendered(s) THEN s
        ELSE IF Rendered(e4) = Rendered(s) THEN e4
        ELSE Commit(s, e4)

\* The first commit: every effect's setup runs.
MountCommit(s) ==
    LET e4 == resetEffect(messageEffect(timerEffect(fullscreenEffect(s, s), s), s), s)
    IN  IF Rendered(e4) = Rendered(s) THEN e4 ELSE Commit(s, e4)

\* A callback that took the state to s: the commit that follows it.
After(s) == Commit(State, s)

WithinBounds(s) ==
    /\ Cardinality(s.ivs) <= MaxIntervals
    /\ Len(s.pend) <= MaxTimeouts

\* ------------------------------------------- src/services/videoService.ts
\* A URL is the sequence of its parts; an id is one part.
U_YOUTUBE == <<"https://", "youtu.be/", "dQw4w9WgXcQ">>
U_CANVA == <<"https://", "www.", "canva.com", "/design/", "DAF12", "/", "view">>
U_EMPTY == <<>>

\* the number of characters of a part
Width(part) ==
    CASE part = "dQw4w9WgXcQ" -> 11
      [] part = "youtu.be/" -> 9
      [] part = "youtube.com/" -> 12
      [] part = "canva.com" -> 9
      [] part = "example.com" -> 11
      [] part = "https://" -> 8
      [] part = "/design/" -> 8
      [] part = "watch?v=" -> 8
      [] part = "DAF12" -> 5
      [] part = "www." -> 4
      [] part = "view" -> 4
      [] OTHER -> 1

RECURSIVE Length(_)
Length(url) == IF url = <<>> THEN 0 ELSE Width(Head(url)) + Length(Tail(url))

NoMatch == <<"null">>

\* (youtu.be\/|v\/|u\/\w\/|embed\/|watch\?v=|&v=), the alternatives that are
\* parts of the URLs considered
YoutubeMarkers == {"youtu.be/", "watch?v=", "embed/", "&v="}

\* ([^#&?]*): the parts from position i up to the first '#', '&' or '?'
RECURSIVE UpToStop(_, _)
UpToStop(url, i) ==
    IF i > Len(url) \/ url[i] \in {"#", "&", "?", "&v="} THEN <<>>
    ELSE <<url[i]>> \o UpToStop(url, i + 1)

\* the greedy ^.* leaves the last marker of the URL to group 1
extractYoutubeId(url) ==
    LET at == {i \in 1..Len(url) : url[i] \in YoutubeMarkers}
    IN  IF at = {} THEN NoMatch
        ELSE LET m == CHOOSE i \in at : \A j \in at : j <= i
                 id == UpToStop(url, m + 1)
             IN  IF Length(id) = 11 THEN id ELSE NoMatch

\* the parts made of [A-Za-z0-9_-] only
IdParts == {"dQw4w9WgXcQ", "DAF12", "view"}

\* ([A-Za-z0-9_-]+): the run of id parts from position i
RECURSIVE IdRun(_, _)
IdRun(url, i) ==
    IF i > Len(url) \/ url[i] \notin IdParts THEN <<>>
    ELSE <<url[i]>> \o IdRun(url, i + 1)

\* /\/design\/([A-Za-z0-9_-]+)(\/|$)/ : the first place where it matches
extractCanvaId(url) ==
    LET ends(i) == i + 1 + Len(IdRun(url, i + 1))
        at == {i \in 1..Len(url) :
                  /\ url[i] = "/design/"
                  /\ IdRun(url, i + 1) # <<>>
                  /\ (ends(i) > Len(url) \/ url[ends(i)] = "/")}
    IN  IF at = {} THEN NoMatch
        ELSE IdRun(url, (CHOOSE i \in at : \A j \in at : i <= j) + 1)

\* url.includes('canva.com/design/')
includesCanvaDesign(url) ==
    \E i \in 1..(Len(url) - 1) : url[i] = "canva.com" /\ url[i + 1] = "/design/"

\* url.trim() === ''
trimsToEmpty(url) == \A i \in 1..Len(url) : url[i] = " "

isValidVideoUrl(url, type) ==
    IF url = <<>> \/ trimsToEmpty(url) THEN FALSE
    ELSE IF type = YOUTUBE THEN extractYoutubeId(url) # NoMatch
    ELSE IF type = CANVA
    THEN includesCanvaDesign(url) /\ extractCanvaId(url) # NoMatch
    ELSE FALSE

\* the documents of the collection: at most MaxDocs, of the users Users,
\* created at clock values up to MaxNow, with the URLs StoredUrls
MaxDocs == 3

MaxNow == 1

\* the Dashboard's add, update and delete handlers in flight at once
MaxCalls == 1

\* the documents the Dashboard's user ever adds
MaxListed == 2

DocIds == 1..MaxDocs

Users == {"u1", "u2"}

StoredUrls == {U_YOUTUBE, U_CANVA, U_EMPTY}

NoResult == [for |-> "nobody", videos |-> <<>>]

\* everything but the service
player ==
    <<props, mounted, currentIndex, isPlaying, loopEnabled, isFullscreen,
      remainingTime, videoTimerRef, intervals, timeouts, listeners,
      lockPending, leftPush, disposed, lastOp, run>>

\* addVideo(userId, videoData): an invalid URL throws before anything is
\* written; addDoc stores the document under a new id
addVideo(userId, url, type, createdAt, id) ==
    /\ isValidVideoUrl(url, type)
    /\ id \notin DOMAIN docs
    /\ docs' = [i \in DOMAIN docs \cup {id} |->
                  IF i = id
                  THEN [userId |-> userId, createdAt |-> createdAt,
                        type |-> type, url |-> url]
                  ELSE docs[i]]

AddVideo ==
    \E userId \in Users, type \in VideoType, url \in StoredUrls, id \in DocIds :
        /\ addVideo(userId, url, type, now, id)
        /\ fetched' = NoResult
        /\ UNCHANGED <<now, player, page>>

\* updateVideo(videoId, videoData), videoData holding the fields `fields`:
\* updateDoc overwrites the fields given and keeps the others
updateVideo(id, fields, url, type) ==
    /\ ~(/\ "url" \in fields /\ url # <<>>
         /\ "type" \in fields
         /\ ~isValidVideoUrl(url, type))
    /\ id \in DOMAIN docs
    /\ docs' = [docs EXCEPT
                  ![id].url = IF "url" \in fields THEN url ELSE @,
                  ![id].type = IF "type" \in fields THEN type ELSE @]

UpdateVideo ==
    \E id \in DocIds, fields \in SUBSET {"url", "type"} :
        \E url \in (IF "url" \in fields THEN StoredUrls ELSE {U_EMPTY}),
           type \in (IF "type" \in fields THEN VideoType ELSE {YOUTUBE}) :
            /\ updateVideo(id, fields, url, type)
            /\ fetched' = NoResult
            /\ UNCHANGED <<now, player, page>>

\* deleteVideo(videoId): deleteDoc
deleteVideo(id) == docs' = [i \in DOMAIN docs \ {id} |-> docs[i]]

DeleteVideo ==
    \E id \in DOMAIN docs :
        /\ deleteVideo(id)
        /\ fetched' = NoResult
        /\ UNCHANGED <<now, player, page>>

\* getDocs(query(..., where('userId', '==', userId))): the matching
\* documents in the order of their ids
RECURSIVE snapshot(_, _)
snapshot(userId, from) ==
    IF from > MaxDocs THEN <<>>
    ELSE IF from \in DOMAIN docs /\ docs[from].userId = userId
    THEN <<[id |-> from, url |-> docs[from].url, type |-> docs[from].type,
            createdAt |-> docs[from].createdAt, userId |-> docs[from].userId]>>
         \o snapshot(userId, from + 1)
    ELSE snapshot(userId, from + 1)

compareOldestFirst(a, b) == a.createdAt - b.createdAt

\* (a, b) => b.createdAt - a.createdAt
compare(a, b) == b.createdAt - a.createdAt

\* Array.prototype.sort with compare: stable
RECURSIVE insert(_, _)
insert(sorted, v) ==
    IF sorted = <<>> THEN <<v>>
    ELSE IF compare(sorted[Len(sorted)], v) <= 0 THEN Append(sorted, v)
    ELSE Append(insert(SubSeq(sorted, 1, Len(sorted) - 1), v),
                sorted[Len(sorted)])

RECURSIVE sort(_)
sort(vs) ==
    IF vs = <<>> THEN <<>>
    ELSE insert(sort(SubSeq(vs, 1, Len(vs) - 1)), vs[Len(vs)])

getUserVideos(userId) == sort(snapshot(userId, 1))

GetUserVideos ==
    \E userId \in Users :
        /\ fetched' = [for |-> userId, videos |-> getUserVideos(userId)]
        /\ UNCHANGED <<docs, now, player, page>>

\* time passes between two calls
TimePasses ==
    /\ now < MaxNow
    /\ now' = now + 1
    /\ fetched' = NoResult
    /\ UNCHANGED <<docs, player, page>>

NextService ==
    \/ AddVideo
    \/ UpdateVideo
    \/ DeleteVideo
    \/ GetUserVideos
    \/ TimePasses

\* ------------------------------------------------- pages/Dashboard.tsx
\* One action is one click on a control the page renders, one answer of
\* the store to a request in flight, or the resumption of a handler after
\* its await.  A handler that resumes reads the videos and currentVideo of
\* the render it was called in.  The dialogs' own behaviour (focus trap,
\* closing on a click of their action button) is not part of the source:
\* every control of the page may be used whenever it is rendered.

\* useAuth().currentUser.uid
CurrentUser == "u1"

\* what VideoForm hands to onSubmit; the title, which no code reads, is
\* left out
FormData ==
    {[url |-> U_YOUTUBE, type |-> YOUTUBE], [url |-> U_CANVA, type |-> CANVA],
     [url |-> U_YOUTUBE, type |-> CANVA]}

NoData == [url |-> U_EMPTY, type |-> YOUTUBE]

\* the useState initial values; currentVideo is <<>> for null
InitialDashboard ==
    [mounted |-> FALSE, videos |-> <<>>, loading |-> TRUE,
     formDialogOpen |-> FALSE, deleteDialogOpen |-> FALSE,
     currentVideo |-> <<>>, formSubmitting |-> FALSE]

\* no handler has resumed yet
NoCall == [kind |-> "none", phase |-> "none"]

IdsOf(list) == {list[k].id : k \in 1..Len(list)}

\* the document ids something still refers to: addDoc never issues one of
\* them again
KnownIds ==
    DOMAIN docs \cup IdsOf(dashboard.videos) \cup IdsOf(dashboard.currentVideo)
    \cup UNION {IdsOf(calls[k].videos) \cup IdsOf(calls[k].currentVideo)
                \cup IdsOf(calls[k].loaded) \cup {calls[k].id} :
                    k \in 1..Len(calls)}

\* an async handler called in the render d, up to its await: the request
\* it sent, and the render's values its continuation will read
Call(kind, d, data) ==
    [kind |-> kind, phase |-> "pending", videos |-> d.videos,
     currentVideo |-> d.currentVideo, data |-> data, at |-> now,
     id |-> 0, loaded |-> <<>>]

\* the handlers, loadVideos aside, that wait at their await
InFlight == Cardinality({k \in 1..Len(calls) : calls[k].kind # "load"})

Without(seq, i) == SubSeq(seq, 1, i - 1) \o SubSeq(seq, i + 1, Len(seq))

\* videos.find(v => v.id === videoId)
find(list, videoId) ==
    IF \E k \in 1..Len(list) : list[k].id = videoId
    THEN <<list[CHOOSE k \in 1..Len(list) :
                   /\ list[k].id = videoId
                   /\ \A j \in 1..(k - 1) : list[j].id # videoId]>>
    ELSE <<>>

\* videos.filter(v => v.id !== id)
RECURSIVE filter(_, _)
filter(list, id) ==
    IF list = <<>> THEN <<>>
    ELSE IF Head(list).id # id THEN <<Head(list)>> \o filter(Tail(list), id)
    ELSE filter(Tail(list), id)

\* videos.map(v => v.id === id ? { ...v, ...data } : v)
map(list, id, data) ==
    [k \in 1..Len(list) |->
        IF list[k].id = id
        THEN [list[k] EXCEPT !.url = data.url, !.type = data.type]
        ELSE list[k]]

\* loadVideos after `await getUserVideos(...)`: try, catch and finally
loadVideosResumed(d, c) ==
    LET a == IF c.phase = "fulfilled" THEN [d EXCEPT !.videos = c.loaded]
             ELSE d
    IN  [a EXCEPT !.loading = FALSE]

\* handleDeleteConfirm that drops the item from the list even when the
\* store rejected
handleDeleteConfirmDropsAnyway(d, c) ==
    [d EXCEPT !.videos = filter(c.videos, c.currentVideo[1].id),
              !.deleteDialogOpen = FALSE, !.currentVideo = <<>>]

\* handleDeleteConfirm after `await deleteVideo(...)`
handleDeleteConfirmResumed(d, c) ==
    LET a == IF c.phase = "fulfilled"
             THEN [d EXCEPT !.videos = filter(c.videos, c.currentVideo[1].id)]
             ELSE d
    IN  [a EXCEPT !.deleteDialogOpen = FALSE, !.currentVideo = <<>>]

\* handleFormSubmit after `await updateVideo(...)` or `await addVideo(...)`
handleFormSubmitResumed(d, c) ==
    LET newVideo == [id |-> c.id, url |-> c.data.url, type |-> c.data.type,
                     createdAt |-> now, userId |-> CurrentUser]
        a == IF c.phase # "fulfilled" THEN d
             ELSE IF c.kind = "update"
             THEN [d EXCEPT !.videos = map(c.videos, c.currentVideo[1].id, c.data),
                            !.formDialogOpen = FALSE]
             ELSE [d EXCEPT !.videos = <<newVideo>> \o c.videos,
                            !.formDialogOpen = FALSE]
    IN  [a EXCEPT !.formSubmitting = FALSE]

\* the component mounts: the effect calls loadVideos, which waits for
\* getUserVideos
DashboardMount ==
    /\ ~dashboard.mounted
    /\ dashboard' = [dashboard EXCEPT !.mounted = TRUE, !.loading = TRUE]
    /\ calls' = Append(calls, Call("load", dashboard, NoData))
    /\ UNCHANGED <<service, player, finished>>

\* click on "Add Video"
HandleAddVideo ==
    /\ dashboard.mounted
    /\ dashboard' = [dashboard EXCEPT !.currentVideo = <<>>,
                                      !.formDialogOpen = TRUE]
    /\ UNCHANGED <<service, player, calls, finished>>

\* click on an item's edit button (VideoList is rendered once loaded)
HandleEditVideo ==
    /\ dashboard.mounted /\ ~dashboard.loading
    /\ \E k \in 1..Len(dashboard.videos) :
        dashboard' = [dashboard EXCEPT !.currentVideo = <<dashboard.videos[k]>>,
                                       !.formDialogOpen = TRUE]
    /\ UNCHANGED <<service, player, calls, finished>>

\* click on an item's delete button
HandleDeleteClick ==
    /\ dashboard.mounted /\ ~dashboard.loading
    /\ \E videoId \in IdsOf(dashboard.videos) :
        \E video \in {find(dashboard.videos, videoId)} :
            dashboard' = IF video # <<>>
                         THEN [dashboard EXCEPT !.currentVideo = video,
                                                !.deleteDialogOpen = TRUE]
                         ELSE dashboard
    /\ UNCHANGED <<service, player, calls, finished>>

\* the form dialog is dismissed: onCancel, or onOpenChange(false)
CloseFormDialog ==
    /\ dashboard.mounted /\ dashboard.formDialogOpen
    /\ dashboard' = [dashboard EXCEPT !.formDialogOpen = FALSE]
    /\ UNCHANGED <<service, player, calls, finished>>

\* the delete dialog is dismissed: onOpenChange(false)
CloseDeleteDialog ==
    /\ dashboard.mounted /\ dashboard.deleteDialogOpen
    /\ dashboard' = [dashboard EXCEPT !.deleteDialogOpen = FALSE]
    /\ UNCHANGED <<service, player, calls, finished>>

\* click on the delete dialog's "Delete": handleDeleteConfirm up to its
\* await
HandleDeleteConfirm ==
    /\ dashboard.mounted /\ dashboard.deleteDialogOpen
    /\ InFlight < MaxCalls
    /\ calls' = IF dashboard.currentVideo = <<>> THEN calls
                ELSE Append(calls, Call("delete", dashboard, NoData))
    /\ UNCHANGED <<service, player, dashboard, finished>>

\* the form is submitted: handleFormSubmit(data) up to its await
HandleFormSubmit ==
    /\ dashboard.mounted /\ dashboard.formDialogOpen
    /\ InFlight < MaxCalls
    /\ \E data \in FormData :
        calls' = Append(calls,
                        Call(IF dashboard.currentVideo # <<>> THEN "update"
                             ELSE "add", dashboard, data))
    /\ dashboard' = [dashboard EXCEPT !.formSubmitting = TRUE]
    /\ UNCHANGED <<service, player, finished>>

\* the store performs the request of calls[i] and fulfils its promise
Fulfil ==
    \E i \in 1..Len(calls) :
        /\ calls[i].phase = "pending"
        /\ \/ /\ calls[i].kind = "load"
              /\ calls' = [calls EXCEPT ![i].phase = "fulfilled",
                                        ![i].loaded = getUserVideos(CurrentUser)]
              /\ UNCHANGED <<docs, fetched>>
           \/ /\ calls[i].kind = "add"
              /\ \E id \in (1..MaxListed) \ KnownIds :
                    /\ addVideo(CurrentUser, calls[i].data.url,
                                calls[i].data.type, calls[i].at, id)
                    /\ calls' = [calls EXCEPT ![i].phase = "fulfilled",
                                              ![i].id = id]
              /\ fetched' = NoResult
           \/ /\ calls[i].kind = "update"
              /\ updateVideo(calls[i].currentVideo[1].id, {"url", "type"},
                             calls[i].data.url, calls[i].data.type)
              /\ calls' = [calls EXCEPT ![i].phase = "fulfilled"]
              /\ fetched' = NoResult
           \/ /\ calls[i].kind = "delete"
              /\ deleteVideo(calls[i].currentVideo[1].id)
              /\ calls' = [calls EXCEPT ![i].phase = "fulfilled"]
              /\ fetched' = NoResult
        /\ UNCHANGED <<now, player, dashboard, finished>>

\* the promise of calls[i] is rejected: the service threw (an invalid URL)
\* or the store refused the request
Reject ==
    \E i \in 1..Len(calls) :
        /\ calls[i].phase = "pending"
        /\ calls' = [calls EXCEPT ![i].phase = "rejected"]
        /\ UNCHANGED <<service, player, dashboard, finished>>

\* the handler of calls[i] resumes after its await and runs to its end
Resume ==
    \E i \in 1..Len(calls) :
        /\ calls[i].phase # "pending"
        /\ dashboard' = IF calls[i].kind = "load"
                        THEN loadVideosResumed(dashboard, calls[i])
                        ELSE IF calls[i].kind = "delete"
                        THEN handleDeleteConfirmResumed(dashboard, calls[i])
                        ELSE handleFormSubmitResumed(dashboard, calls[i])
        /\ calls' = Without(calls, i)
        /\ finished' = [kind |-> calls[i].kind, phase |-> calls[i].phase]
        /\ UNCHANGED <<service, player>>

NextDashboard ==
    \/ DashboardMount
    \/ HandleAddVideo
    \/ HandleEditVideo
    \/ HandleDeleteClick
    \/ CloseFormDialog
    \/ CloseDeleteDialog
    \/ HandleDeleteConfirm
    \/ HandleFormSubmit
    \/ Fulfil
    \/ Reject
    \/ Resume
    \/ TimePasses

\* ----------------------------------------------------------------- Init
Iterations == {P000, P001, P003, P002}

Playlists == UNION {[1..n -> VideoType] : n \in 0..MaxVideos}

NoRun == [start |-> -1, len |-> 0, await |-> FALSE]

InitWith(its, stored) ==
    /\ iteration \in its
    /\ videos \in Playlists
    /\ autoPlay \in BOOLEAN
    /\ orientationLock \in (IF iteration = P002 THEN BOOLEAN ELSE {FALSE})
    /\ mounted = FALSE
    /\ currentIndex = 0
    /\ isPlaying = autoPlay
    /\ loopEnabled = TRUE
    /\ isFullscreen = FALSE
    /\ remainingTime = INITIAL_REMAINING_TIME
    /\ videoTimerRef = Null
    /\ intervals = {}
    /\ timeouts = <<>>
    /\ listeners = {}
    /\ lockPending = FALSE
    /\ leftPush = FALSE
    /\ disposed = FALSE
    /\ lastOp = "init"
    /\ run = NoRun
    /\ docs \in stored
    /\ now = 0
    /\ fetched = NoResult
    /\ dashboard = InitialDashboard
    /\ calls = <<>>
    /\ finished = NoCall

\* the store is empty
InitOf(its) == InitWith(its, {<<>>})

Init == InitOf(Iterations)

InitHosted == InitOf({P000, P003})

InitP001 == InitOf({P001})

InitP003 == InitOf({P003})

InitP002 == InitOf({P002})

\* -------------------------------------------------------------- actions
\* The controls are rendered only when there is a current video.
ControlsRendered == mounted /\ currentVideo # Undefined

\* The callbacks the history variable lastOp tells apart: in every iteration
\* the ones few states follow, in the iterations without a countdown also
\* the skips that moved the cursor and the embed's notifications.
Recorded ==
    {"skipIgnored", "expiry", "resume", "threw", "replacePlaylist", "unmount",
     "settleDisposed", "toggleLooping"}
    \cup (IF iteration = P002 THEN {}
          ELSE {"skipNext", "skipPrevious", "ended", "staleEndedAfterSkipNext",
                "playing", "paused"})

Noted(op) == IF op \in Recorded THEN op ELSE "other"

\* a callback took the state to s: commit, and note the callback
Do(s, op) ==
    \E r \in {After(s)} :
        /\ WithinBounds(r)
        /\ Store(r)
        /\ lastOp' = Noted(op)
        /\ UNCHANGED <<props, mounted, disposed, service, page>>

\* history of the run of consecutive ENDED events, each left to settle
RunOnEnded ==
    IF N > 1 /\ loopEnabled /\ isPlaying /\ timeouts = <<>>
    THEN IF run.start = -1 \/ run.len = N
         THEN [start |-> currentIndex, len |-> 0, await |-> TRUE]
         ELSE [run EXCEPT !.await = TRUE]
    ELSE NoRun

RunOnSettle ==
    IF run.await /\ Len(timeouts) = 1
    THEN [run EXCEPT !.len = @ + 1, !.await = FALSE]
    ELSE NoRun

\* React mounts the component: the first render's effects run.
Mount ==
    /\ ~mounted
    /\ ~disposed
    /\ mounted' = TRUE
    /\ \E r \in {MountCommit(State)} : Store(r)
    /\ lastOp' = Noted("mount")
    /\ run' = NoRun
    /\ UNCHANGED <<props, disposed, service, page>>

\* A 'message' event { event: 'onStateChange', info } reaches the window.
\* stale: it was posted by the embed of an item that has been left.
Message(info, stale) ==
    /\ mounted
    /\ IF stale THEN leftPush ELSE currentVideo = YOUTUBE
    /\ Do(Dispatch(State, info),
          IF info = ENDED /\ stale /\ lastOp = "skipNext" THEN "staleEndedAfterSkipNext"
          ELSE IF info = ENDED THEN "ended"
          ELSE IF info = ERRORED THEN "errored"
          ELSE IF info = PLAYING THEN "playing"
          ELSE IF info = PAUSED THEN "paused" ELSE "ignored")
    /\ run' = IF info = ENDED /\ ~stale THEN RunOnEnded ELSE NoRun

\* The oldest settle timeout fires.
Settle ==
    /\ mounted
    /\ timeouts # <<>>
    /\ Do(settleCallback([State EXCEPT !.pend = Tail(@)], Head(timeouts)), "settle")
    /\ run' = RunOnSettle

\* A live countdown interval ticks.
Tick ==
    /\ mounted
    /\ \E iv \in intervals :
        /\ Do(intervalCallback(State, iv),
              IF remainingTime - 1 <= 0 THEN "expiry" ELSE "tick")
        /\ run' = IF remainingTime - 1 <= 0 THEN RunOnEnded ELSE run

\* togglePlayPause is called.
CallTogglePlayPause ==
    /\ mounted
    /\ Do(togglePlayPause(State), IF isPlaying THEN "pause" ELSE "resume")
    /\ run' = NoRun

\* goToNextVideo is called.
CallSkipNext ==
    /\ mounted
    /\ Do(goToNextVideo(State, Closure(State)),
          IF N <= 1 THEN "skipIgnored" ELSE "skipNext")
    /\ run' = NoRun

\* goToPreviousVideo is called.
CallSkipPrevious ==
    /\ mounted
    /\ Do(goToPreviousVideo(State),
          IF N <= 1 THEN "skipIgnored" ELSE "skipPrevious")
    /\ run' = NoRun

\* toggleLooping is called.
CallToggleLooping ==
    /\ mounted
    /\ Do(toggleLooping(State), "toggleLooping")
    /\ run' = NoRun

\* The play/pause button is pressed.
TogglePlayPause == ControlsRendered /\ CallTogglePlayPause

\* The next-video button is pressed (part_000 renders none).
SkipNext == ControlsRendered /\ iteration # P000 /\ CallSkipNext

\* The previous-video button is pressed (part_000 renders none).
SkipPrevious == ControlsRendered /\ iteration # P000 /\ CallSkipPrevious

\* The loop button is pressed (part_002 renders none).
ToggleLooping == ControlsRendered /\ iteration \in {P001, P003} /\ CallToggleLooping

\* The fullscreen button of part_002, which sets the flag itself.
ToggleFullscreen ==
    /\ ControlsRendered
    /\ iteration = P002
    /\ Do(IF isFullscreen THEN exitFullscreen(State) ELSE enterFullscreen(State),
          "toggleFullscreen")
    /\ run' = NoRun

\* The platform reports a fullscreen change; b: a fullscreen element exists.
FullscreenChange ==
    /\ mounted
    /\ \E b \in BOOLEAN : Do([State EXCEPT !.fs = b], "fullscreenchange")
    /\ run' = NoRun

\* The orientation.lock() promise settles; either way enterFullscreen runs.
LockSettled ==
    /\ mounted
    /\ lockPending
    /\ Do(enterFullscreen([State EXCEPT !.lock = FALSE]), "lockSettled")
    /\ run' = NoRun

Messages == \E info \in PlayerStates, stale \in BOOLEAN : Message(info, stale)

\* event.data of a 'message' event that is no state-change notification:
\* a string, null, or an object whose event is another one
Payloads == {"string", "null", "otherEvent"}

\* typeof event.data === 'object'
typeofObject(payload) == payload \in {"null", "otherEvent"}

\* handleMessage on such a payload: "dropped", "caught" (the try/catch of
\* part_001 and later logs the TypeError of reading null.event) or "threw"
malformedOutcome(payload) ==
    IF ~typeofObject(payload) THEN "dropped"
    ELSE IF payload # "null" THEN "dropped"
    ELSE IF iteration = P000 THEN "threw"
    ELSE "caught"

\* A 'message' event that is no state-change notification reaches the
\* listener; no branch of handleMessage sets any state.
Malformed ==
    /\ mounted
    /\ listeners # {}
    /\ \E payload \in Payloads : Do(State, malformedOutcome(payload))
    /\ run' = NoRun

\* The host passes another videos array (of other Video objects).
ReplacePlaylist(vs) ==
    /\ mounted
    /\ vs # videos
    /\ \E r \in {Commit(State, [State EXCEPT !.vids = vs])} :
           /\ WithinBounds(r)
           /\ Store(r)
    /\ videos' = vs
    /\ lastOp' = Noted("replacePlaylist")
    /\ run' = NoRun
    /\ UNCHANGED <<iteration, autoPlay, orientationLock, mounted, disposed,
                   service, page>>

Replacements == {vs \in Playlists : Len(vs) <= MaxReplaced}

Replace == \E vs \in Replacements : ReplacePlaylist(vs)

\* The host unmounts the component: every effect's cleanup runs, and the
\* component's state is discarded (shown as its initial values); timeouts
\* nobody holds a handle of stay scheduled.
Unmount ==
    /\ mounted
    /\ \E c \in {messageEffectCleanup(
                    timerEffectCleanup(fullscreenEffectCleanup(State), State),
                    State)} :
           Store([c EXCEPT !.idx = 0, !.playing = autoPlay, !.loop = TRUE,
                           !.fs = FALSE, !.rt = INITIAL_REMAINING_TIME,
                           !.ref = Null, !.lock = FALSE, !.left = FALSE])
    /\ mounted' = FALSE
    /\ disposed' = TRUE
    /\ lastOp' = Noted("unmount")
    /\ run' = NoRun
    /\ UNCHANGED <<props, service, page>>

\* A settle timeout fires after the unmount: its setState calls are ignored.
SettleDisposed ==
    /\ disposed
    /\ timeouts # <<>>
    /\ timeouts' = Tail(timeouts)
    /\ lastOp' = Noted("settleDisposed")
    /\ UNCHANGED <<props, service, page, mounted, disposed, currentIndex, isPlaying,
                   loopEnabled, isFullscreen, remainingTime, videoTimerRef,
                   intervals, listeners, lockPending, leftPush, run>>

\* every iteration
Next ==
    \/ Mount
    \/ Messages
    \/ Settle
    \/ Tick
    \/ TogglePlayPause
    \/ SkipNext
    \/ SkipPrevious
    \/ ToggleLooping
    \/ ToggleFullscreen
    \/ FullscreenChange
    \/ LockSettled

\* part_000 and part_003 under their host: the playback controls, every
\* payload, and the host replacing the playlist or unmounting the component
NextHosted ==
    \/ Mount
    \/ Messages
    \/ Malformed
    \/ Settle
    \/ TogglePlayPause
    \/ SkipNext
    \/ SkipPrevious
    \/ ToggleLooping
    \/ Replace
    \/ Unmount
    \/ SettleDisposed

\* part_001 and part_003: no countdown, and the flag isFullscreen follows
\* the platform's notifications only
NextUntimed ==
    \/ Mount
    \/ Messages
    \/ Settle
    \/ TogglePlayPause
    \/ SkipNext
    \/ SkipPrevious
    \/ ToggleLooping
    \/ FullscreenChange

\* part_002
NextTimed ==
    \/ Mount
    \/ Messages
    \/ Settle
    \/ Tick
    \/ TogglePlayPause
    \/ SkipNext
    \/ SkipPrevious
    \/ ToggleFullscreen
    \/ FullscreenChange
    \/ LockSettled

\* part_002 until its host unmounts it
NextTimedDisposable ==
    \/ NextTimed
    \/ Unmount
    \/ SettleDisposed

\* part_002 left to play by itself: the embed reports the end (or the
\* failure) of the current youtube item, the countdown ticks, the delayed
\* advance fires, and the platform changes the presentation
ItemEnds == \E info \in {ENDED, ERRORED} : Message(info, FALSE)

NextPlaying ==
    \/ Mount
    \/ ItemEnds
    \/ Tick
    \/ Settle
    \/ FullscreenChange
    \/ LockSettled

\* every item eventually ends: a youtube item posts ENDED or ERRORED, a
\* running countdown keeps ticking, a scheduled timeout fires, a pending
\* orientation lock settles
Fairness ==
    /\ WF_vars(Mount)
    /\ WF_vars(ItemEnds)
    /\ WF_vars(Tick)
    /\ WF_vars(Settle)
    /\ WF_vars(LockSettled)

\* part_003 with its control functions called directly, whatever is rendered
NextCalls ==
    \/ Mount
    \/ Messages
    \/ Settle
    \/ CallTogglePlayPause
    \/ CallSkipNext
    \/ CallSkipPrevious
    \/ CallToggleLooping
    \/ FullscreenChange

Spec == Init /\ [][Next]_vars

SpecHosted == InitHosted /\ [][NextHosted]_vars

SpecP001 == InitP001 /\ [][NextUntimed]_vars

SpecP003 == InitP003 /\ [][NextUntimed]_vars

SpecP002 == InitP002 /\ [][NextTimed]_vars

SpecP002Disposable == InitP002 /\ [][NextTimedDisposable]_vars

SpecP002Playing == InitP002 /\ [][NextPlaying]_vars /\ Fairness

\* the service alone, no player mounted
InitService == InitOf({P002}) /\ videos = <<>> /\ autoPlay /\ ~orientationLock

SpecService == InitService /\ [][NextService]_vars

\* the Dashboard opens on a store that is empty or holds one video of the
\* user
InitDashboard ==
    /\ InitWith({P002}, {<<>>, <<[userId |-> CurrentUser, createdAt |-> 0,
                                  type |-> YOUTUBE, url |-> U_YOUTUBE]>>})
    /\ videos = <<>> /\ autoPlay /\ ~orientationLock

SpecDashboard == InitDashboard /\ [][NextDashboard]_vars

SpecCalls == InitP003 /\ [][NextCalls]_vars

SpecP002Calls == InitP002 /\ [][NextCalls]_vars

\* ================================================================ claims
Playback == <<currentIndex, isPlaying, loopEnabled>>

Countdown == <<remainingTime, intervals, videoTimerRef>>

\* C1 (as claimed): after a manual skipNext() has changed the item, an ENDED
\* notification of the item that was left is discarded: the settle delay it
\* may have started never advances currentIndex a second time and never
\* changes isPlaying.
C1_StaleEndedDiscarded ==
    [][(lastOp = "staleEndedAfterSkipNext" /\ Len(timeouts) = 1 /\ Settle)
        => UNCHANGED <<currentIndex, isPlaying>>]_vars

\* C2 (as claimed): with loopEnabled = false and currentIndex = N - 1, an
\* ENDED received while playing, once settled, leaves currentIndex = N - 1
\* and sets isPlaying = false.
C2_LoopStop ==
    [][(/\ N > 0 /\ ~loopEnabled /\ currentIndex = N - 1 /\ isPlaying
        /\ lastOp = "ended" /\ Len(timeouts) = 1
        /\ Settle)
        => (currentIndex' = N - 1 /\ isPlaying' = FALSE)]_vars

\* C3: for N > 1, loopEnabled and isPlaying, after exactly N consecutive
\* ENDED events, each for the current item and each left to settle,
\* currentIndex is the index it had before the first of them.
C3_LoopWrap == (N > 1 /\ run.len = N) => currentIndex = run.start

C3_Witness == N > 2 /\ run.len = N /\ ~autoPlay /\ run.start = 1

\* C4 (as claimed): playlist [A(PUSH), B(TIMED), C(PUSH)], loop on: playback
\* starts at index 0 playing; ENDED for A moves the cursor to index 1 and a
\* countdown starts at 30.
C4_ScenarioLoopOn ==
    [][(/\ videos = <<YOUTUBE, CANVA, YOUTUBE>> /\ loopEnabled
        /\ currentIndex = 0 /\ isPlaying
        /\ run.await /\ Len(timeouts) = 1
        /\ Settle)
        => (/\ currentIndex' = 1
            /\ remainingTime' = CANVA_TIME_LIMIT
            /\ intervals' # {})]_vars

\* C5 (as claimed): with loopEnabled = false and currentIndex = N - 1, N > 1,
\* an ERRORED event wraps currentIndex to 0.
C5_ErrorWraps ==
    [][(/\ N > 1 /\ ~loopEnabled /\ currentIndex = N - 1
        /\ \E stale \in BOOLEAN : Message(ERRORED, stale))
        => currentIndex' = 0]_vars

\* C6: at most one countdown is live, it is the one videoTimerRef holds, and
\* it was armed for the current item: no countdown of an item that has been
\* left can tick or expire.
C6_TimerExclusive ==
    /\ Cardinality(intervals) <= 1
    /\ \A iv \in intervals : iv.item = currentIndex /\ videoTimerRef = iv.id

C6_Witness ==
    /\ iteration = P002 /\ ~autoPlay /\ currentIndex = 1
    /\ intervals = {[id |-> 1, item |-> 1]} /\ remainingTime < CANVA_TIME_LIMIT

\* C7 (as claimed): for N > 1 and every value of loopEnabled, skipNext() from
\* index i sets currentIndex to (i + 1) mod N and skipPrevious() sets it to
\* (i - 1 + N) mod N, where it rests.
C7_SkipWraps ==
    [][/\ (N > 1 /\ SkipNext) => currentIndex' = (currentIndex + 1) % N
       /\ (N > 1 /\ SkipPrevious) => currentIndex' = (currentIndex - 1 + N) % N]_vars

\* C8: when N <= 1, skipNext() and skipPrevious() change nothing: not
\* currentIndex, isPlaying, loopEnabled, nor the countdown.
C8_SkipNoOp ==
    [][(N <= 1 /\ (SkipNext \/ SkipPrevious))
        => UNCHANGED <<Playback, Countdown, timeouts, listeners>>]_vars

C8_Witness ==
    /\ N = 1 /\ lastOp = "skipIgnored"
    /\ intervals # {} /\ remainingTime < CANVA_TIME_LIMIT

\* C9: with an empty playlist there is no current item, the empty state is
\* rendered in place of the player, and no countdown is ever armed.
C9_EmptyPlaylist ==
    N = 0 => /\ currentVideo = Undefined
             /\ ~ControlsRendered
             /\ intervals = {}
             /\ videoTimerRef = Null

C9_Witness == N = 0 /\ mounted /\ isPlaying /\ iteration = P002

C12_EndedWhilePausedNoOp ==
    [][/\ (~isPlaying /\ \E stale \in BOOLEAN : Message(ENDED, stale))
            => UNCHANGED Playback
       /\ (lastOp = "ended" /\ ~isPlaying /\ Len(timeouts) = 1 /\ Settle)
            => UNCHANGED Playback]_vars

\* C13: in part_003 and part_002, the embed reporting playing (info 1) sets
\* isPlaying to true and reporting paused (info 2) sets it to false, and
\* neither changes currentIndex or loopEnabled.
C13_PlayStateOnly ==
    [][/\ (iteration \in {P003, P002} /\ \E stale \in BOOLEAN : Message(PLAYING, stale))
            => (isPlaying' = TRUE /\ UNCHANGED <<currentIndex, loopEnabled>>)
       /\ (iteration \in {P003, P002} /\ \E stale \in BOOLEAN : Message(PAUSED, stale))
            => (isPlaying' = FALSE /\ UNCHANGED <<currentIndex, loopEnabled>>)]_vars

C13_Witness ==
    /\ iteration = P003 /\ lastOp = "paused" /\ ~isPlaying /\ autoPlay
    /\ currentVideo = YOUTUBE

\* C14 (as claimed): a pending settle delay is cancelled when a manual control
\* call supersedes it before it fires: after skipNext or skipPrevious
\* (N > 1), or after a pause, no delayed advance is left pending.
C14_SettleCancelable ==
    [][(/\ timeouts # <<>>
        /\ \/ N > 1 /\ (SkipNext \/ SkipPrevious)
           \/ isPlaying /\ TogglePlayPause)
        => timeouts' = <<>>]_vars

\* C15 (as claimed): a notification that is malformed (a payload that is not
\* an object, is null, or names another event) or carries an unrecognized
\* state code is dropped: the handler does not throw and the playback state
\* is unchanged.
C15_MalformedDropped ==
    [][(Malformed \/ \E stale \in BOOLEAN : Message(BUFFERING, stale))
        => (lastOp' # "threw" /\ UNCHANGED <<Playback, Countdown, timeouts>>)]_vars

\* C16 (as claimed): once the component is torn down, the countdown is
\* cancelled, the 'message' listener is detached and no settle delay is left
\* in flight, so nothing can fire afterwards.
C16_DisposalCancelsAll ==
    disposed => (intervals = {} /\ listeners = {} /\ timeouts = <<>>)

\* C17 (as claimed): an item of type youtube that posts no further message
\* stays the current item: while the current item is a youtube item, no
\* countdown expiry schedules an advance, and currentIndex never changes
\* because of a countdown.
C17_PushNeverTimedOut ==
    [][/\ (currentVideo = YOUTUBE /\ Tick) => timeouts' = timeouts
       /\ (currentVideo = YOUTUBE /\ lastOp = "expiry" /\ Len(timeouts) = 1
              /\ Settle)
            => currentIndex' = currentIndex]_vars

\* C18 (as claimed): a presentation change (the fullscreen button, a
\* fullscreenchange notification, the orientation lock settling either way)
\* leaves currentIndex, isPlaying, loopEnabled and the live countdown (the
\* running interval and remainingTime) unchanged.
C18_PresentationApart ==
    [][(ToggleFullscreen \/ FullscreenChange \/ LockSettled)
        => UNCHANGED <<Playback, intervals, remainingTime>>]_vars

\* C19 (as claimed): nothing halts the playlist. With loopEnabled and
\* isPlaying set and N > 1, when every item eventually ends, every item of
\* the playlist becomes the current item again and again.
C19_NothingHalts ==
    \A i \in 0..(MaxVideos - 1) :
        []<>(\/ ~(mounted /\ loopEnabled /\ isPlaying /\ N > 1 /\ i < N)
             \/ currentIndex = i)

\* C20 (as claimed): pausing freezes the countdown of a canva item:
\* remainingTime is not decremented while isPlaying is false, and the
\* countdown a resume starts continues from the value remainingTime had while
\* paused.
C20_PauseFreezes ==
    [][/\ (~isPlaying /\ Tick) => remainingTime' = remainingTime
       /\ (currentVideo = CANVA /\ lastOp' = "resume" /\ intervals' # {})
            => remainingTime' = remainingTime]_vars

\* C21 (as claimed): toggleLooping() inverts loopEnabled and changes nothing
\* else of the playback state; a second call restores the value the first
\* one found.
C21_ToggleLoopInverts ==
    [][/\ lastOp' = "toggleLooping"
            => (loopEnabled' = ~loopEnabled /\ UNCHANGED <<currentIndex, isPlaying>>)
       /\ (lastOp = "toggleLooping" /\ lastOp' = "toggleLooping")
            => loopEnabled' = ~loopEnabled]_vars

\* C22: the play/pause button inverts isPlaying and leaves the item alone:
\* once the effects the call triggers have run, currentIndex and loopEnabled
\* are what they were before the call.
C22_PlayPauseKeepsItem ==
    [][TogglePlayPause
        => (isPlaying' = ~isPlaying /\ UNCHANGED <<currentIndex, loopEnabled>>)]_vars

C22_Witness ==
    /\ iteration = P002 /\ ~autoPlay /\ lastOp = "resume"
    /\ currentIndex = 1 /\ isPlaying

\* C23 (as claimed): isFullscreen follows the platform's fullscreenchange
\* notifications only: every change of the flag is the reaction to such a
\* notification, so a request the platform rejects or ignores (which sends
\* none) never leaves isFullscreen set.
C23_FullscreenFollowsPlatform ==
    [][(isFullscreen' # isFullscreen) => FullscreenChange]_vars

\* C24: getUserVideos(userId) returns exactly the stored documents whose
\* userId is the one asked for, each once and with its stored fields, newest
\* first: of two adjacent results the first has the greater or equal
\* createdAt.
C24_ListByOwnerNewestFirst ==
    fetched # NoResult =>
        LET vs == fetched.videos
            ids == {vs[i].id : i \in 1..Len(vs)}
        IN  /\ ids = {id \in DOMAIN docs : docs[id].userId = fetched.for}
            /\ Cardinality(ids) = Len(vs)
            /\ \A i \in 1..Len(vs) :
                   /\ vs[i].userId = fetched.for
                   /\ vs[i].url = docs[vs[i].id].url
                   /\ vs[i].type = docs[vs[i].id].type
                   /\ vs[i].createdAt = docs[vs[i].id].createdAt
            /\ \A i \in 1..(Len(vs) - 1) : vs[i].createdAt >= vs[i + 1].createdAt

C24_Witness ==
    /\ fetched.for = "u1"
    /\ Len(fetched.videos) = 2
    /\ fetched.videos[1].id > fetched.videos[2].id
    /\ fetched.videos[1].createdAt > fetched.videos[2].createdAt
    /\ \E id \in DOMAIN docs : docs[id].userId = "u2"

\* C25 (as claimed): whatever addVideo and updateVideo calls were made, every
\* stored document has a url that isValidVideoUrl accepts for its type.
C25_StoredUrlsValid ==
    \A id \in DOMAIN docs : isValidVideoUrl(docs[id].url, docs[id].type)

\* C26: a countdown that is armed starts at the fixed duration of 30; each
\* tick takes exactly 1 off remainingTime; the tick that reaches zero
\* schedules one advance and cancels the countdown, so that no interval is
\* left to tick or expire again.
C26_CountdownSemantics ==
    [][/\ ((intervals = {} \/ currentIndex' # currentIndex) /\ intervals' # {})
            => remainingTime' = DEFAULT_TIME_LIMIT
       /\ (Tick /\ remainingTime > 1)
            => (remainingTime' = remainingTime - 1 /\ intervals' = intervals)
       /\ (Tick /\ remainingTime <= 1)
            => (/\ remainingTime' = 0
                /\ intervals' = {}
                /\ Len(timeouts') = Len(timeouts) + 1)]_vars

C26_Witness ==
    /\ lastOp = "expiry" /\ currentVideo = CANVA /\ remainingTime = 0
    /\ intervals = {} /\ Len(timeouts) = 1

\* C27: the countdown is cancelled on pause: in every state with isPlaying
\* false no interval is live, so no tick and no expiry can happen while
\* paused.
C27_NoCountdownWhilePaused == ~isPlaying => intervals = {}

C27_Witness ==
    /\ mounted /\ autoPlay /\ ~isPlaying /\ currentVideo = CANVA
    /\ remainingTime < CANVA_TIME_LIMIT /\ remainingTime > 0

\* C28: the 'message' listener follows the item. While the component is
\* mounted with N > 0 exactly one listener is attached (the one of the
\* previous render has been removed), and its closure holds the current
\* values of currentIndex, isPlaying and loopEnabled.
C28_OneCurrentListener ==
    (mounted /\ N > 0) => listeners = {Closure(State)}

C28_Witness ==
    /\ mounted /\ iteration = P003 /\ N = 2
    /\ listeners = {[idx |-> 1, playing |-> FALSE, loop |-> FALSE, vids |-> videos]}

C30_OneSettlePending ==
    [][/\ Len(timeouts') <= 1
       /\ (Settle /\ currentIndex' # currentIndex) => timeouts' = <<>>]_vars

\* C31: in part_002 with a single item, the expiry of the countdown and the
\* advance it schedules never change currentIndex, and once remainingTime
\* has reached 0 with no interval live, no step that leaves isPlaying and
\* the playlist as they are arms a countdown again.
C31_SingleItemExpires ==
    [][/\ (N = 1 /\ (Tick \/ Settle)) => currentIndex' = currentIndex
       /\ (N = 1 /\ Tick /\ remainingTime <= 1)
            => (remainingTime' = 0 /\ intervals' = {})
       /\ (/\ N = 1 /\ mounted /\ remainingTime = 0 /\ intervals = {}
           /\ isPlaying' = isPlaying /\ videos' = videos)
            => (remainingTime' = 0 /\ intervals' = {})]_vars

C31_Witness ==
    /\ iteration = P002 /\ N = 1 /\ mounted /\ isPlaying
    /\ remainingTime = 0 /\ intervals = {} /\ timeouts = <<>>

\* C32: in part_002 loopEnabled is true in every reachable state, whatever
\* is called (toggleLooping included), so the advance an ENDED schedules at
\* the last of several items lands on index 0.
C32_LoopAlwaysOn ==
    [][/\ (iteration = P002 /\ mounted) => loopEnabled
       /\ (iteration = P002 /\ mounted') => loopEnabled'
       /\ (/\ N > 1 /\ currentIndex = N - 1 /\ run.await
           /\ Len(timeouts) = 1 /\ Settle)
            => currentIndex' = 0]_vars

C32_Witness ==
    /\ iteration = P002 /\ mounted /\ lastOp = "toggleLooping" /\ loopEnabled
    /\ N = 2 /\ currentIndex = 1 /\ Len(timeouts) = 1

\* C33: in part_002 remainingTime stays between 0 and 30: a tick never takes
\* it below 0, and arming a countdown sets it to the limit of the item's
\* kind, never above.
C33_RemainingTimeBounded ==
    [][/\ 0 <= remainingTime' /\ remainingTime' <= INITIAL_REMAINING_TIME
       /\ Tick => (remainingTime' >= 0 /\ remainingTime' <= remainingTime)
       /\ (mounted' /\ intervals' # {} /\ intervals' # intervals)
            => remainingTime' <= timeLimitOf(videoAt(videos', currentIndex'))]_vars

C33_Witness ==
    /\ iteration = P002 /\ mounted /\ lastOp = "expiry" /\ remainingTime = 0

\* C34: addVideo, and updateVideo called with both a url and a type, write
\* nothing when the url is not valid for the type: a document that addVideo
\* creates holds a valid url, and no step is an updateVideo of an invalid
\* (url, type) pair that changes the document store.
C34_InvalidUrlRejected ==
    [][/\ \A id \in DOMAIN docs' \ DOMAIN docs :
            isValidVideoUrl(docs'[id].url, docs'[id].type)
       /\ \A id \in DocIds, url \in StoredUrls, type \in VideoType :
            (/\ ~isValidVideoUrl(url, type)
             /\ updateVideo(id, {"url", "type"}, url, type))
                => docs' = docs]_vars

\* C35: when a handler of the Dashboard resumes after its add, update or
\* delete: if the store rejected, the local list is what it was; the
\* submitting flag (add, update) or the delete dialog and the selection
\* (delete) are reset, fulfilled or rejected; and if the store fulfilled,
\* the new item heads the list, or the updated item carries the submitted
\* data at its place in the list, or no item of the list has the deleted id.
C35_ListFollowsStore ==
    [][\A i \in 1..Len(calls) :
        (/\ calls[i].kind # "load" /\ calls[i].phase # "pending"
         /\ calls' = Without(calls, i))
        => LET c == calls[i]
               ok == c.phase = "fulfilled"
               was == c.videos
               list == dashboard'.videos
           IN  /\ ~ok => list = dashboard.videos
               /\ c.kind \in {"add", "update"} => ~dashboard'.formSubmitting
               /\ c.kind = "delete"
                    => (/\ ~dashboard'.deleteDialogOpen
                        /\ dashboard'.currentVideo = <<>>)
               /\ (ok /\ c.kind = "add")
                    => (/\ list # <<>>
                        /\ list[1].id = c.id
                        /\ list[1].url = c.data.url
                        /\ list[1].type = c.data.type
                        /\ list[1].userId = CurrentUser
                        /\ ~dashboard'.formDialogOpen)
               /\ (ok /\ c.kind = "update")
                    => (/\ Len(list) = Len(was)
                        /\ \A k \in 1..Len(list) :
                            IF was[k].id = c.currentVideo[1].id
                            THEN list[k] = [was[k] EXCEPT !.url = c.data.url,
                                                          !.type = c.data.type]
                            ELSE list[k] = was[k]
                        /\ ~dashboard'.formDialogOpen)
               /\ (ok /\ c.kind = "delete")
                    => \A k \in 1..Len(list) :
                            list[k].id # c.currentVideo[1].id]_vars

C35_Witness ==
    /\ finished = [kind |-> "delete", phase |-> "rejected"]
    /\ Len(dashboard.videos) = 2
    /\ ~dashboard.deleteDialogOpen /\ dashboard.currentVideo = <<>>
====
